---- MODULE Spec2Model ----
(***************************************************************************)
(* Model of the graph-node block-stream test fixture                       *)
(* (tests/src/fixture.rs: StaticStreamBuilder, stream_events) and of the   *)
(* chain-store repair command (node/src/manager/commands/fix_block.rs).    *)
(*                                                                         *)
(* Option<T> is modelled as a set: None is {} and Some(x) is {x}.          *)
(***************************************************************************)
EXTENDS Integers, Sequences, FiniteSets, TLC

\* Longest chain list handed to the StaticStreamBuilder.
MaxLen == 4

None == {}
Some(x) == {x}
Unwrap(o) == CHOOSE x \in o : TRUE

\* BlockPtr { hash, number }: structural equality.
BlockPtr(h, n) == [hash |-> h, number |-> n]

\* fixture.rs test_ptr: the hash is derived from the number.
test_ptr(n) == BlockPtr(n, n)

\* A block as the stream sees it: its pointer and its optional parent pointer.
Block(p, parent) == [ptr |-> p, parent_ptr |-> parent]

\* The blocks chain lists are built from: a main branch genesis,1,2,3 and two
\* competing blocks, 3_B (child of 2) and 1_B (child of genesis). A hash
\* identifies a block, so a pointer determines the parent pointer.
Genesis == Block(test_ptr(0), None)
Block1 == Block(test_ptr(1), Some(test_ptr(0)))
Block2 == Block(test_ptr(2), Some(test_ptr(1)))
Block3A == Block(test_ptr(3), Some(test_ptr(2)))
Block3B == Block(BlockPtr(13, 3), Some(test_ptr(2)))
Block1B == Block(BlockPtr(11, 1), Some(test_ptr(0)))
BlockUniverse == {Genesis, Block1, Block2, Block3A, Block3B, Block1B}
PtrUniverse == {b.ptr : b \in BlockUniverse}

\* Every chain list of at most MaxLen blocks.
ChainLists == UNION {[1..n -> BlockUniverse] : n \in 0..MaxLen}

\* BlockStreamEvent::ProcessBlock(block, cursor) and ::Revert(ptr, cursor);
\* the cursor is always FirehoseCursor::None.
ProcessBlock(b) == [kind |-> "ProcessBlock", block |-> b]
Revert(p) == [kind |-> "Revert", ptr |-> p]

VARIABLES
    blocks,              \* StaticStreamBuilder.chain / stream_events' blocks
    start,               \* build_firehose's current_block argument (Option)
    current_ptr,         \* stream_events: current_ptr (Option<BlockPtr>)
    current_parent_ptr,  \* stream_events: current_parent_ptr (Option<BlockPtr>)
    pos,                 \* index of the block blocks_iter.peek() returns
    events,              \* the events yielded so far, in order
    pc,                  \* "built", "running", "done", "panicked"
    \* fix_block.rs: the chain store, and the repair command in progress
    cache,               \* ChainStore block cache: hash -> Option<body>
    chain_head,          \* ChainStore chain head block number (Option<i32>)
    cmd,                 \* the command invoked and its argument
    rpc,                 \* where the command stands ("idle" when none runs)
    range_max,           \* by_range: max, the upper end of min..=max
    block_number,        \* by_number / by_range: the height being repaired
    block_hash,          \* run: block_hash
    cached_block,        \* run: cached_block
    provider_block,      \* run: provider_block
    result,              \* what the command returned
    io,                  \* chain-store and provider calls made by the command
    \* fixture.rs: a second StaticStream built by the same builder
    other                \* its start, current_ptr, current_parent_ptr, pos, events, pc

streamVars == <<blocks, start, current_ptr, current_parent_ptr, pos, events, pc>>
repairVars == <<cache, chain_head, cmd, rpc, range_max, block_number,
                block_hash, cached_block, provider_block, result, io>>
vars == <<streamVars, repairVars, other>>

\* chain.iter().enumerate().find(|(_, b)| b.ptr() == p): the first index
\* (1-based here) whose block has pointer p; 0 when there is none.
FindIndex(bl, p) ==
    IF \E i \in 1..Len(bl) : bl[i].ptr = p
    THEN CHOOSE i \in 1..Len(bl) :
            /\ bl[i].ptr = p
            /\ \A j \in 1..(i - 1) : bl[j].ptr # p
    ELSE 0

\* A variant of BuildFirehose that starts the iterator at the current block
\* instead of after it (skip(idx) for skip(idx + 1)).
BuildFirehoseNoSkip(bl, current_block) ==
    IF current_block = None
    THEN [ok |-> TRUE, current_ptr |-> None, current_parent_ptr |-> None,
          pos |-> 1]
    ELSE LET idx == FindIndex(bl, Unwrap(current_block)) IN
         IF idx = 0
         THEN [ok |-> FALSE]
         ELSE [ok |-> TRUE,
               current_ptr |-> Some(bl[idx].ptr),
               current_parent_ptr |-> bl[idx].parent_ptr,
               pos |-> idx]

\* build_firehose + the prologue of stream_events: the state of a new stream
\* for `current_block`. The find(..).unwrap() panics when the chain holds no
\* block with that pointer.
BuildFirehose(bl, current_block) ==
    IF current_block = None
    THEN [ok |-> TRUE, current_ptr |-> None, current_parent_ptr |-> None,
          pos |-> 1]
    ELSE LET idx == FindIndex(bl, Unwrap(current_block)) IN
         IF idx = 0
         THEN [ok |-> FALSE]
         ELSE [ok |-> TRUE,
               current_ptr |-> Some(bl[idx].ptr),
               current_parent_ptr |-> bl[idx].parent_ptr,
               pos |-> idx + 1]

\* A variant of StreamStep that tests the candidate's parent against
\* current_parent_ptr instead of current_ptr.
StreamStepCmpParent(bl, cur, par, p) ==
    IF p > Len(bl)
    THEN [kind |-> "end"]
    ELSE LET block == bl[p] IN
         IF block.parent_ptr = par
         THEN [kind |-> "yield",
               event |-> ProcessBlock(block),
               current_ptr |-> Some(block.ptr),
               current_parent_ptr |-> block.parent_ptr,
               pos |-> p + 1]
         ELSE IF par = None
              THEN [kind |-> "panic"]
              ELSE LET revert_to == Unwrap(par)
                       idx == FindIndex(bl, revert_to)
                   IN IF idx = 0
                      THEN [kind |-> "panic"]
                      ELSE [kind |-> "yield",
                            event |-> Revert(revert_to),
                            current_ptr |-> Some(revert_to),
                            current_parent_ptr |-> bl[idx].parent_ptr,
                            pos |-> p]

\* A variant of StreamStep whose Revert branch also advances the iterator
\* and keeps the stale current_parent_ptr.
StreamStepRevertConsumes(bl, cur, par, p) ==
    IF p > Len(bl)
    THEN [kind |-> "end"]
    ELSE LET block == bl[p] IN
         IF block.parent_ptr = cur
         THEN [kind |-> "yield",
               event |-> ProcessBlock(block),
               current_ptr |-> Some(block.ptr),
               current_parent_ptr |-> block.parent_ptr,
               pos |-> p + 1]
         ELSE IF par = None
              THEN [kind |-> "panic"]
              ELSE LET revert_to == Unwrap(par)
                       idx == FindIndex(bl, revert_to)
                   IN IF idx = 0
                      THEN [kind |-> "panic"]
                      ELSE [kind |-> "yield",
                            event |-> Revert(revert_to),
                            current_ptr |-> Some(revert_to),
                            current_parent_ptr |-> par,
                            pos |-> p + 1]

\* A variant of StreamStep that, with no parent to revert to, reverts to the
\* current head itself (unwrap_or) instead of panicking.
StreamStepRevertAtGenesis(bl, cur, par, p) ==
    IF p > Len(bl)
    THEN [kind |-> "end"]
    ELSE LET block == bl[p] IN
         IF block.parent_ptr = cur
         THEN [kind |-> "yield",
               event |-> ProcessBlock(block),
               current_ptr |-> Some(block.ptr),
               current_parent_ptr |-> block.parent_ptr,
               pos |-> p + 1]
         ELSE IF par = None
              THEN IF cur = None
                   THEN [kind |-> "panic"]
                   ELSE [kind |-> "yield",
                         event |-> Revert(Unwrap(cur)),
                         current_ptr |-> cur,
                         current_parent_ptr |-> None,
                         pos |-> p + 1]
              ELSE LET revert_to == Unwrap(par)
                       idx == FindIndex(bl, revert_to)
                   IN IF idx = 0
                      THEN [kind |-> "panic"]
                      ELSE [kind |-> "yield",
                            event |-> Revert(revert_to),
                            current_ptr |-> Some(revert_to),
                            current_parent_ptr |-> bl[idx].parent_ptr,
                            pos |-> p]

\* One iteration of the `while let Some(&block) = blocks_iter.peek()` loop.
\*   "end"   the iterator is exhausted, the stream ends
\*   "yield" an event is yielded and the state is updated
\*   "panic" current_parent_ptr.unwrap() or find(..).unwrap() panics
StreamStep(bl, cur, par, p) ==
    IF p > Len(bl)
    THEN [kind |-> "end"]
    ELSE LET block == bl[p] IN
         IF block.parent_ptr = cur
         THEN [kind |-> "yield",
               event |-> ProcessBlock(block),
               current_ptr |-> Some(block.ptr),
               current_parent_ptr |-> block.parent_ptr,
               pos |-> p + 1]
         ELSE IF par = None
              THEN [kind |-> "panic"]
              ELSE LET revert_to == Unwrap(par)
                       idx == FindIndex(bl, revert_to)
                   IN IF idx = 0
                      THEN [kind |-> "panic"]
                      ELSE [kind |-> "yield",
                            event |-> Revert(revert_to),
                            current_ptr |-> Some(revert_to),
                            current_parent_ptr |-> bl[idx].parent_ptr,
                            pos |-> p]

(***************************************************************************)
(* The chain store and the repair command (fix_block.rs)                   *)
(***************************************************************************)

\* Largest block number written as a bound of a range expression or passed
\* to by_number (besides i32::MAX).
MaxBound == 3

\* The i32 range of Range's bounds and of block numbers.
I32Max == 2147483647
I32Min == (0 - I32Max) - 1

\* Hashes of the blocks the store may hold: genesis (0), the blocks 1 and 2
\* of the main branch, and 12, a competing block at height 2.
StoreHashes == {0, 1, 2, 12}
\* The hashes a command may name: those of the store, and 99, the hash of
\* no block of the store.
HashValues == StoreHashes \cup {99}
NumberOf(h) == IF h = 12 THEN 2 ELSE h
GenesisHash == CHOOSE h \in StoreHashes : NumberOf(h) = 0

\* Block bodies as JSON values: the provider's (canonical) body, a body that
\* differs from it, and a body that is not equal to the canonical one as a
\* serde_json::Value yet for which the structural diff is Null.
Bodies == {"canonical", "stale", "reencoded"}

\* The cache states a repair command may find.
CacheStates ==
    {c \in [StoreHashes -> {None} \cup {Some(b) : b \in Bodies}] :
        /\ c[12] \in {None, Some("canonical")}
        /\ c[0] # Some("reencoded")
        /\ c[2] # Some("reencoded")}

ChainHeads == {None, Some(1), Some(2)}

\* ---- ChainStore (graph_store_postgres), as the spec's section 4.1 states it

\* block_hashes_by_block_number: the hashes cached at a height.
BlockHashesByBlockNumber(c, number) ==
    {h \in StoreHashes : c[h] # None /\ NumberOf(h) = number}

\* blocks(&[hash]): the cached bodies among the hashes asked for.
Blocks(c, hash) == IF hash \in StoreHashes THEN c[hash] ELSE None

\* delete_blocks(&[hash]): removes the entry; an absent hash is not an error.
DeleteBlocks(c, hash) ==
    [h \in StoreHashes |-> IF h = hash THEN None ELSE c[h]]

\* truncate_block_cache(): removes every cached block.
TruncateBlockCache(c) == [h \in StoreHashes |-> None]

\* ---- results

OkResult == "Ok"
IsErr(r) == r \notin {"Ok", "none"}

\* ---- helpers

\* helpers::parse_block_hash. A hash string is its number of leading "0x",
\* and its digits: the hex of a 32-byte hash, text that is not hex, or hex
\* of fewer than 32 bytes (H256::from_slice then panics).
HashString(zerox, hex, value) == [zerox |-> zerox, hex |-> hex, value |-> value]
HashStrings ==
    {HashString(z, "hash", h) : z \in {0, 1}, h \in HashValues}
        \cup {HashString(z, k, 0) : z \in {0, 1}, k \in {"nothex", "short"}}

parse_block_hash(s) ==
    IF s.hex = "nothex" THEN [kind |-> "err", hash |-> 0]
    ELSE IF s.hex = "short" THEN [kind |-> "panic", hash |-> 0]
    ELSE [kind |-> "ok", hash |-> s.value]

\* helpers::prompt_for_confirmation: the answer read from stdin is a word,
\* possibly in upper case, possibly surrounded by white space (the newline).
Answer(word, upper, padded) == [word |-> word, upper |-> upper, padded |-> padded]
Answers ==
    {Answer(w, u, p) : w \in {"y", "yes", "n", "", "yess"}, u \in BOOLEAN, p \in BOOLEAN}
make_ascii_lowercase(a) == [a EXCEPT !.upper = FALSE]
trim(a) == [a EXCEPT !.padded = FALSE]
\* A variant of prompt_for_confirmation without make_ascii_lowercase.
prompt_for_confirmationCaseSensitive(a) ==
    trim(a) = Answer("y", FALSE, FALSE) \/ trim(a) = Answer("yes", FALSE, FALSE)
\* helpers::prompt_for_confirmation on the line read.
prompt_for_confirmation(a) ==
    LET answer == trim(make_ascii_lowercase(a))
    IN answer = Answer("y", FALSE, FALSE) \/ answer = Answer("yes", FALSE, FALSE)

\* A variant of get_single_item that picks an item when there are several.
get_single_itemPicksOne(items) ==
    IF items # {}
    THEN [ok |-> TRUE, item |-> CHOOSE x \in items : TRUE, err |-> "none"]
    ELSE [ok |-> FALSE, item |-> 0, err |-> "Expected a single item but found none"]

\* helpers::get_single_item over the collection's items.
get_single_item(items) ==
    IF Cardinality(items) = 1
    THEN [ok |-> TRUE, item |-> CHOOSE x \in items : TRUE, err |-> "none"]
    ELSE IF items = {}
    THEN [ok |-> FALSE, item |-> 0, err |-> "Expected a single item but found none"]
    ELSE [ok |-> FALSE, item |-> 0,
          err |-> "Expected a single item but found multiple occurrences"]

\* ---- ranges

\* A range expression is a string; here the sequence of its lexical pieces:
\* an integer literal, the text "..", the text "..=", or other text.
IntTok(n) == [t |-> "int", v |-> n]
Excl == [t |-> "sep", v |-> 0]
Incl == [t |-> "sep", v |-> 1]
Junk == [t |-> "junk", v |-> 0]

BoundLiterals == (-1)..MaxBound

RangeExprs ==
    {lo \o <<sep>> \o hi :
        lo \in {<<>>} \cup {<<IntTok(n)>> : n \in BoundLiterals},
        sep \in {Excl, Incl},
        hi \in {<<>>} \cup {<<IntTok(n)>> : n \in BoundLiterals \cup {I32Max}}}
    \cup {<<>>, <<IntTok(1)>>, <<Junk>>,
          <<Junk, Excl, IntTok(2)>>, <<IntTok(1), Incl, Junk>>,
          <<IntTok(1), Excl, IntTok(2), Excl, IntTok(3)>>,
          <<IntTok(1), Incl, IntTok(2), Excl, IntTok(3)>>,
          <<IntTok(1), Excl, IntTok(2), Incl, IntTok(3)>>,
          <<IntTok(1), Incl, IntTok(2), Incl, IntTok(3)>>}

Range(lower_bound, upper_bound, inclusive) ==
    [lower_bound |-> lower_bound, upper_bound |-> upper_bound,
     inclusive |-> inclusive]

\* str::contains for the two separators: "..=" contains "..".
Contains(s, sep) ==
    \E i \in 1..Len(s) : s[i] = sep \/ (sep = Excl /\ s[i] = Incl)

\* str::split(separator): the pieces between the occurrences. Splitting on
\* ".." is only done on strings without "..=".
RECURSIVE Split(_, _)
Split(s, sep) ==
    IF \E i \in 1..Len(s) : s[i] = sep
    THEN LET i == CHOOSE k \in 1..Len(s) :
                    s[k] = sep /\ \A j \in 1..(k - 1) : s[j] # sep
         IN <<SubSeq(s, 1, i - 1)>> \o Split(SubSeq(s, i + 1, Len(s)), sep)
    ELSE <<s>>

\* str::parse::<i32>: only a lone integer literal parses.
ParseI32(part) ==
    IF Len(part) = 1 /\ part[1].t = "int" /\ part[1].v >= I32Min /\ part[1].v <= I32Max
    THEN Some(part[1].v)
    ELSE None

RangeErr(e) == [ok |-> FALSE, err |-> e, range |-> Range(None, None, FALSE)]
RangeOk(r) == [ok |-> TRUE, err |-> "none", range |-> r]

\* A variant of from_str without the start > end test.
from_strNoOrderTest(s) ==
    IF ~Contains(s, Incl) /\ ~Contains(s, Excl)
    THEN RangeErr("Malformed range expression")
    ELSE LET inclusive == Contains(s, Incl)
             separator == IF inclusive THEN Incl ELSE Excl
             split == Split(s, separator)
         IN IF Len(split) # 2 THEN RangeErr("Invalid range")
            ELSE LET start_str == split[1]
                     end_str == split[2]
                 IN IF start_str = <<>> /\ end_str = <<>>
                    THEN RangeOk(Range(None, None, TRUE))
                    ELSE IF end_str = <<>>
                    THEN IF ParseI32(start_str) = None THEN RangeErr("ParseIntError")
                         ELSE RangeOk(Range(ParseI32(start_str), None, TRUE))
                    ELSE IF start_str = <<>>
                    THEN IF ParseI32(end_str) = None THEN RangeErr("ParseIntError")
                         ELSE RangeOk(Range(None, ParseI32(end_str), inclusive))
                    ELSE IF ParseI32(start_str) = None \/ ParseI32(end_str) = None
                         THEN RangeErr("ParseIntError")
                         ELSE RangeOk(Range(ParseI32(start_str), ParseI32(end_str),
                                            inclusive))

\* <Range as FromStr>::from_str
from_str(s) ==
    IF ~Contains(s, Incl) /\ ~Contains(s, Excl)
    THEN RangeErr("Malformed range expression")
    ELSE LET inclusive == Contains(s, Incl)
             separator == IF inclusive THEN Incl ELSE Excl
             split == Split(s, separator)
         IN IF Len(split) # 2 THEN RangeErr("Invalid range")
            ELSE LET start_str == split[1]
                     end_str == split[2]
                 IN IF start_str = <<>> /\ end_str = <<>>
                    THEN RangeOk(Range(None, None, TRUE))
                    ELSE IF end_str = <<>>
                    THEN IF ParseI32(start_str) = None THEN RangeErr("ParseIntError")
                         ELSE RangeOk(Range(ParseI32(start_str), None, TRUE))
                    ELSE IF start_str = <<>>
                    THEN IF ParseI32(end_str) = None THEN RangeErr("ParseIntError")
                         ELSE RangeOk(Range(None, ParseI32(end_str), inclusive))
                    ELSE IF ParseI32(start_str) = None \/ ParseI32(end_str) = None
                         THEN RangeErr("ParseIntError")
                         ELSE IF Unwrap(ParseI32(start_str)) > Unwrap(ParseI32(end_str))
                              THEN RangeErr("Invalid range")
                              ELSE RangeOk(Range(ParseI32(start_str), ParseI32(end_str),
                                                 inclusive))

\* A variant of min_max in which an omitted lower bound becomes 0.
min_maxLowerDefaultsToZero(r) ==
    IF r.lower_bound = Some(0)
    THEN [kind |-> "err", err |-> "Genesis block can't be removed.",
          min |-> 0, max |-> None]
    ELSE IF r.lower_bound # None /\ Unwrap(r.lower_bound) < 0
    THEN [kind |-> "err", err |-> "Negative block number", min |-> 0, max |-> None]
    ELSE LET min == IF r.lower_bound = None THEN 0 ELSE Unwrap(r.lower_bound)
             inclusive == IF r.inclusive THEN 1 ELSE 0
         IN IF r.upper_bound = None
            THEN [kind |-> "ok", err |-> "none", min |-> min, max |-> None]
            ELSE IF Unwrap(r.upper_bound) > I32Max - inclusive
            THEN [kind |-> "overflow", err |-> "none", min |-> min,
                  max |-> Some(I32Min)]
            ELSE [kind |-> "ok", err |-> "none", min |-> min,
                  max |-> Some(Unwrap(r.upper_bound) + inclusive)]

\* Range::min_max. The sum x + inclusive overflows i32 for x = i32::MAX:
\* "overflow" stands for it (a panic in a build with overflow checks, a
\* wrap to i32::MIN without).
min_max(r) ==
    IF r.lower_bound = Some(0)
    THEN [kind |-> "err", err |-> "Genesis block can't be removed.",
          min |-> 0, max |-> None]
    ELSE IF r.lower_bound # None /\ Unwrap(r.lower_bound) < 0
    THEN [kind |-> "err", err |-> "Negative block number", min |-> 0, max |-> None]
    ELSE LET min == IF r.lower_bound = None THEN 1 ELSE Unwrap(r.lower_bound)
             inclusive == IF r.inclusive THEN 1 ELSE 0
         IN IF r.upper_bound = None
            THEN [kind |-> "ok", err |-> "none", min |-> min, max |-> None]
            ELSE IF Unwrap(r.upper_bound) > I32Max - inclusive
            THEN [kind |-> "overflow", err |-> "none", min |-> min,
                  max |-> Some(I32Min)]
            ELSE [kind |-> "ok", err |-> "none", min |-> min,
                  max |-> Some(Unwrap(r.upper_bound) + inclusive)]

\* ---- steps

\* json_structural_diff::JsonDiff::diff(a, b, false).diff for a # b.
JsonDiff(a, b) ==
    IF {a, b} = {"canonical", "reencoded"} THEN Some("Null") ELSE Some("changed")

\* A variant of diff_block_pair that reports a Null diff as a difference.
diff_block_pairNullDiffers(a, b) ==
    IF a = b THEN None
    ELSE IF JsonDiff(a, b) = None THEN None
    ELSE JsonDiff(a, b)

\* steps::diff_block_pair
diff_block_pair(a, b) ==
    IF a = b THEN None
    ELSE IF JsonDiff(a, b) = None \/ JsonDiff(a, b) = Some("Null") THEN None
    ELSE JsonDiff(a, b)

\* What the provider may answer to block_by_hash(hash): a failure, no
\* block, the block of that hash, or a block reporting another hash.
ProviderAnswer(kind, hash) == [kind |-> kind, hash |-> hash, body |-> "canonical"]
ProviderAnswers(hash) ==
    {ProviderAnswer("error", 0), ProviderAnswer("none", 0),
     ProviderAnswer("block", hash), ProviderAnswer("block", hash + 100)}

\* A call recorded in io.
Call(name, arg) == [call |-> name, arg |-> arg]

NoCommand == [op |-> "none", arg |-> <<>>]
Command(op, arg) == [op |-> op, arg |-> arg]

\* A stream the builder has not built.
NoStream ==
    [start |-> None, current_ptr |-> None, current_parent_ptr |-> None,
     pos |-> 1, events |-> <<>>, pc |-> "built"]

\* A StaticStreamBuilder holding a chain list; no stream built yet.
StreamInit ==
    /\ other = NoStream
    /\ blocks \in ChainLists
    /\ start = None
    /\ current_ptr = None
    /\ current_parent_ptr = None
    /\ pos = 1
    /\ events = <<>>
    /\ pc = "built"

\* No repair command in play: an empty store and no command.
RepairQuiet ==
    /\ cache = [h \in StoreHashes |-> None]
    /\ chain_head = None
    /\ cmd = NoCommand
    /\ rpc = "idle"
    /\ range_max = 0
    /\ block_number = 0
    /\ block_hash = 0
    /\ cached_block = None
    /\ provider_block = None
    /\ result = "none"
    /\ io = <<>>

Init == StreamInit /\ RepairQuiet

\* build_firehose(current_block) succeeds and the stream starts.
Build(current_block) ==
    /\ pc = "built"
    /\ LET s == BuildFirehose(blocks, current_block) IN
        /\ s.ok
        /\ current_ptr' = s.current_ptr
        /\ current_parent_ptr' = s.current_parent_ptr
        /\ pos' = s.pos
    /\ start' = current_block
    /\ pc' = "running"
    /\ UNCHANGED <<blocks, events, repairVars, other>>

\* build_firehose(current_block) panics: the chain does not hold the block.
BuildPanic(current_block) ==
    /\ pc = "built"
    /\ ~BuildFirehose(blocks, current_block).ok
    /\ start' = current_block
    /\ pc' = "panicked"
    /\ UNCHANGED <<blocks, current_ptr, current_parent_ptr, pos, events, repairVars, other>>

\* A poll that yields an event (ProcessBlock or Revert).
Yield ==
    /\ pc = "running"
    /\ LET s == StreamStep(blocks, current_ptr, current_parent_ptr, pos) IN
        /\ s.kind = "yield"
        /\ current_ptr' = s.current_ptr
        /\ current_parent_ptr' = s.current_parent_ptr
        /\ pos' = s.pos
        /\ events' = Append(events, s.event)
    /\ UNCHANGED <<blocks, start, pc, repairVars, other>>

\* A poll that panics inside the loop body.
Panic ==
    /\ pc = "running"
    /\ StreamStep(blocks, current_ptr, current_parent_ptr, pos).kind = "panic"
    /\ pc' = "panicked"
    /\ UNCHANGED <<blocks, start, current_ptr, current_parent_ptr, pos, events, repairVars, other>>

\* A poll that finds the iterator exhausted: the stream ends.
End ==
    /\ pc = "running"
    /\ StreamStep(blocks, current_ptr, current_parent_ptr, pos).kind = "end"
    /\ pc' = "done"
    /\ UNCHANGED <<blocks, start, current_ptr, current_parent_ptr, pos, events, repairVars, other>>

Next ==
    \/ \E cb \in {None} \cup {Some(p) : p \in PtrUniverse} : Build(cb)
    \/ \E cb \in {Some(p) : p \in PtrUniverse} : BuildPanic(cb)
    \/ Yield
    \/ Panic
    \/ End

Spec == Init /\ [][Next]_vars

(***************************************************************************)
(* Two streams of one builder: build_firehose hands every stream its own   *)
(* clone of the chain list and its own stream_events state.                *)
(***************************************************************************)

\* Longest chain list streamed by two streams at once.
MaxShared == 3

TwoStreamInit == Init /\ Len(blocks) <= MaxShared

\* build_firehose(current_block) succeeds for the second stream.
OtherBuild(current_block) ==
    /\ other.pc = "built"
    /\ LET s == BuildFirehose(blocks, current_block) IN
        /\ s.ok
        /\ other' = [other EXCEPT !.start = current_block,
                                  !.current_ptr = s.current_ptr,
                                  !.current_parent_ptr = s.current_parent_ptr,
                                  !.pos = s.pos,
                                  !.pc = "running"]
    /\ UNCHANGED <<streamVars, repairVars>>

\* build_firehose(current_block) panics for the second stream.
OtherBuildPanic(current_block) ==
    /\ other.pc = "built"
    /\ ~BuildFirehose(blocks, current_block).ok
    /\ other' = [other EXCEPT !.start = current_block, !.pc = "panicked"]
    /\ UNCHANGED <<streamVars, repairVars>>

\* A variant of OtherYield in which the two streams share one iterator:
\* the poll of the second stream also moves the first stream's position.
OtherYieldSharesIterator ==
    /\ other.pc = "running"
    /\ LET s == StreamStep(blocks, other.current_ptr, other.current_parent_ptr,
                           other.pos) IN
        /\ s.kind = "yield"
        /\ other' = [other EXCEPT !.current_ptr = s.current_ptr,
                                  !.current_parent_ptr = s.current_parent_ptr,
                                  !.pos = s.pos,
                                  !.events = Append(other.events, s.event)]
        /\ pos' = s.pos
    /\ UNCHANGED <<blocks, start, current_ptr, current_parent_ptr, events, pc,
                   repairVars>>

\* A poll of the second stream that yields an event.
OtherYield ==
    /\ other.pc = "running"
    /\ LET s == StreamStep(blocks, other.current_ptr, other.current_parent_ptr,
                           other.pos) IN
        /\ s.kind = "yield"
        /\ other' = [other EXCEPT !.current_ptr = s.current_ptr,
                                  !.current_parent_ptr = s.current_parent_ptr,
                                  !.pos = s.pos,
                                  !.events = Append(other.events, s.event)]
    /\ UNCHANGED <<streamVars, repairVars>>

\* A poll of the second stream that panics inside the loop body.
OtherPanic ==
    /\ other.pc = "running"
    /\ StreamStep(blocks, other.current_ptr, other.current_parent_ptr,
                  other.pos).kind = "panic"
    /\ other' = [other EXCEPT !.pc = "panicked"]
    /\ UNCHANGED <<streamVars, repairVars>>

\* A poll of the second stream that finds its iterator exhausted.
OtherEnd ==
    /\ other.pc = "running"
    /\ StreamStep(blocks, other.current_ptr, other.current_parent_ptr,
                  other.pos).kind = "end"
    /\ other' = [other EXCEPT !.pc = "done"]
    /\ UNCHANGED <<streamVars, repairVars>>

TwoStreamNext ==
    \/ \E cb \in {None} \cup {Some(p) : p \in PtrUniverse} : Build(cb)
    \/ \E cb \in {Some(p) : p \in PtrUniverse} : BuildPanic(cb)
    \/ Yield
    \/ Panic
    \/ End
    \/ \E cb \in {None} \cup {Some(p) : p \in PtrUniverse} : OtherBuild(cb)
    \/ \E cb \in {Some(p) : p \in PtrUniverse} : OtherBuildPanic(cb)
    \/ OtherYield
    \/ OtherPanic
    \/ OtherEnd

TwoStreamSpec == TwoStreamInit /\ [][TwoStreamNext]_vars

(***************************************************************************)
(* The repair command as a process: by_hash, by_number, by_range and       *)
(* truncate, each a sequence of chain-store and provider calls.            *)
(***************************************************************************)

\* No stream in play.
StreamQuiet ==
    /\ other = NoStream
    /\ blocks = <<>>
    /\ start = None
    /\ current_ptr = None
    /\ current_parent_ptr = None
    /\ pos = 1
    /\ events = <<>>
    /\ pc = "built"

RepairInit ==
    /\ StreamQuiet
    /\ cache \in CacheStates
    /\ chain_head \in ChainHeads
    /\ cmd = NoCommand
    /\ rpc = "idle"
    /\ range_max = 0
    /\ block_number = 0
    /\ block_hash = 0
    /\ cached_block = None
    /\ provider_block = None
    /\ result = "none"
    /\ io = <<>>

\* by_hash(hash): parse_block_hash, then run.
ByHash(hash) ==
    /\ rpc = "idle"
    /\ cmd' = Command("by_hash", hash)
    /\ io' = <<>>
    /\ LET parsed == parse_block_hash(hash) IN
        /\ block_hash' = parsed.hash
        /\ rpc' = CASE parsed.kind = "ok" -> "fetch_cached"
                    [] parsed.kind = "err" -> "finished"
                    [] OTHER -> "panicked"
        /\ result' = IF parsed.kind = "err" THEN "Cannot parse H256 value from string"
                     ELSE "none"
    /\ UNCHANGED <<cache, chain_head, range_max, block_number, cached_block,
                   provider_block, streamVars, other>>

\* by_number(number): resolve_block_hash_from_block_number comes next.
ByNumber(number) ==
    /\ rpc = "idle"
    /\ cmd' = Command("by_number", number)
    /\ io' = <<>>
    /\ block_number' = number
    /\ rpc' = "resolve"
    /\ result' = "none"
    /\ UNCHANGED <<cache, chain_head, range_max, block_hash, cached_block,
                   provider_block, streamVars, other>>

\* by_range up to the for loop: range.parse, min_max, and find_chain_head
\* for an open upper bound. `wraps` tells whether the build wraps on i32
\* overflow or panics.
ByRange(range, wraps) ==
    /\ rpc = "idle"
    /\ cmd' = Command("by_range", range)
    /\ LET parsed == from_str(range)
           mm == min_max(parsed.range)
       IN IF ~parsed.ok
          THEN /\ rpc' = "finished" /\ result' = parsed.err /\ io' = <<>>
               /\ UNCHANGED <<range_max, block_number>>
          ELSE IF mm.kind = "err"
          THEN /\ rpc' = "finished" /\ result' = mm.err /\ io' = <<>>
               /\ UNCHANGED <<range_max, block_number>>
          ELSE IF mm.kind = "overflow" /\ ~wraps
          THEN /\ rpc' = "panicked" /\ result' = "none" /\ io' = <<>>
               /\ UNCHANGED <<range_max, block_number>>
          ELSE IF mm.max = None /\ chain_head = None
          THEN /\ rpc' = "finished"
               /\ result' = "Could not find the chain head"
               /\ io' = <<Call("chain_head_block", chain_head)>>
               /\ UNCHANGED <<range_max, block_number>>
          ELSE LET max == IF mm.max = None THEN Unwrap(chain_head)
                          ELSE Unwrap(mm.max)
               IN /\ io' = IF mm.max = None THEN <<Call("chain_head_block", chain_head)>>
                           ELSE <<>>
                  /\ range_max' = max
                  /\ block_number' = mm.min
                  /\ IF mm.min <= max
                     THEN rpc' = "resolve" /\ result' = "none"
                     ELSE rpc' = "finished" /\ result' = OkResult
    /\ UNCHANGED <<cache, chain_head, block_hash, cached_block, provider_block,
                   streamVars, other>>

\* truncate(skip_confirmation), with the answer typed at the prompt.
Truncate(skip_confirmation, answer) ==
    /\ rpc = "idle"
    /\ cmd' = Command("truncate", <<skip_confirmation, answer>>)
    /\ LET prompt == IF skip_confirmation THEN <<>>
                     ELSE <<Call("prompt_for_confirmation", answer)>>
       IN IF ~skip_confirmation /\ ~prompt_for_confirmation(answer)
          THEN /\ io' = prompt
               /\ UNCHANGED cache
          ELSE /\ cache' = TruncateBlockCache(cache)
               /\ io' = Append(prompt, Call("truncate_block_cache", 0))
    /\ rpc' = "finished"
    /\ result' = OkResult
    /\ UNCHANGED <<chain_head, range_max, block_number, block_hash, cached_block,
                   provider_block, streamVars, other>>

\* steps::resolve_block_hash_from_block_number
Resolve ==
    /\ rpc = "resolve"
    /\ io' = Append(io, Call("block_hashes_by_block_number", block_number))
    /\ LET found == get_single_item(BlockHashesByBlockNumber(cache, block_number)) IN
        IF found.ok
        THEN /\ block_hash' = found.item
             /\ rpc' = "fetch_cached"
             /\ UNCHANGED result
        ELSE /\ rpc' = "finished"
             /\ result' = found.err
             /\ UNCHANGED block_hash
    /\ UNCHANGED <<cache, chain_head, cmd, range_max, block_number, cached_block,
                   provider_block, streamVars, other>>

\* A variant of FetchCached that sends the provider request before it looks
\* at what the cache returned.
FetchCachedAsksProviderFirst ==
    /\ rpc = "fetch_cached"
    /\ io' = io \o <<Call("blocks", block_hash), Call("block_by_hash", block_hash)>>
    /\ IF Blocks(cache, block_hash) = None
       THEN /\ rpc' = "finished"
            /\ result' = "Could not find a block in cache"
            /\ UNCHANGED cached_block
       ELSE /\ cached_block' = Blocks(cache, block_hash)
            /\ rpc' = "fetch_provider"
            /\ UNCHANGED result
    /\ UNCHANGED <<cache, chain_head, cmd, range_max, block_number, block_hash,
                   provider_block, streamVars, other>>

\* run: steps::fetch_single_cached_block
FetchCached ==
    /\ rpc = "fetch_cached"
    /\ io' = Append(io, Call("blocks", block_hash))
    /\ IF Blocks(cache, block_hash) = None
       THEN /\ rpc' = "finished"
            /\ result' = "Could not find a block in cache"
            /\ UNCHANGED cached_block
       ELSE /\ cached_block' = Blocks(cache, block_hash)
            /\ rpc' = "fetch_provider"
            /\ UNCHANGED result
    /\ UNCHANGED <<cache, chain_head, cmd, range_max, block_number, block_hash,
                   provider_block, streamVars, other>>

\* A variant of FetchProvider without the test of the block's own hash.
FetchProviderAnyHash(answer) ==
    /\ rpc = "fetch_provider"
    /\ io' = io \o <<Call("block_by_hash", block_hash),
                      Call("block_by_hash answer", answer)>>
    /\ CASE answer.kind = "error" ->
              /\ rpc' = "finished" /\ result' = "failed to fetch block"
              /\ UNCHANGED provider_block
         [] answer.kind = "none" ->
              /\ rpc' = "finished" /\ result' = "JRPC provider found no block"
              /\ UNCHANGED provider_block
         [] OTHER ->
              /\ provider_block' = Some(answer.body)
              /\ rpc' = "diff"
              /\ UNCHANGED result
    /\ UNCHANGED <<cache, chain_head, cmd, range_max, block_number, block_hash,
                   cached_block, streamVars, other>>

\* run: steps::fetch_single_provider_block, for one provider answer; the
\* answer is logged after the call.
FetchProvider(answer) ==
    /\ rpc = "fetch_provider"
    /\ io' = io \o <<Call("block_by_hash", block_hash),
                      Call("block_by_hash answer", answer)>>
    /\ CASE answer.kind = "error" ->
              /\ rpc' = "finished" /\ result' = "failed to fetch block"
              /\ UNCHANGED provider_block
         [] answer.kind = "none" ->
              /\ rpc' = "finished" /\ result' = "JRPC provider found no block"
              /\ UNCHANGED provider_block
         [] answer.kind = "block" /\ answer.hash # block_hash ->
              /\ rpc' = "finished"
              /\ result' = "Provider responded with a different block hash"
              /\ UNCHANGED provider_block
         [] OTHER ->
              /\ provider_block' = Some(answer.body)
              /\ rpc' = "diff"
              /\ UNCHANGED result
    /\ UNCHANGED <<cache, chain_head, cmd, range_max, block_number, block_hash,
                   cached_block, streamVars, other>>

\* A variant of DiffAndDelete in which deleting a hash that is no longer
\* cached is an error.
DiffAndDeleteAbsentIsError ==
    /\ rpc = "diff"
    /\ LET diff == diff_block_pair(Unwrap(cached_block), Unwrap(provider_block)) IN
        IF diff # None /\ cache[block_hash] = None
        THEN /\ io' = io \o <<Call("report_difference", "diverges"),
                               Call("delete_blocks", block_hash)>>
             /\ rpc' = "finished"
             /\ result' = "block not found in cache"
             /\ UNCHANGED <<cache, block_number>>
        ELSE /\ IF diff # None
                THEN /\ cache' = DeleteBlocks(cache, block_hash)
                     /\ io' = io \o <<Call("report_difference", "diverges"),
                                       Call("delete_blocks", block_hash)>>
                ELSE /\ io' = Append(io, Call("report_difference", "equal"))
                     /\ UNCHANGED cache
             /\ IF cmd.op = "by_range" /\ block_number < range_max
                THEN /\ block_number' = block_number + 1
                     /\ rpc' = "resolve"
                     /\ UNCHANGED result
                ELSE /\ rpc' = "finished"
                     /\ result' = OkResult
                     /\ UNCHANGED block_number
    /\ cached_block' = None
    /\ provider_block' = None
    /\ UNCHANGED <<chain_head, cmd, range_max, block_hash, streamVars, other>>

\* A variant of DiffAndDelete in which a divergence ends the command with
\* an error after the delete.
DiffAndDeleteDivergenceFatal ==
    /\ rpc = "diff"
    /\ LET diff == diff_block_pair(Unwrap(cached_block), Unwrap(provider_block)) IN
        IF diff # None
        THEN /\ cache' = DeleteBlocks(cache, block_hash)
             /\ io' = io \o <<Call("report_difference", "diverges"),
                               Call("delete_blocks", block_hash)>>
             /\ rpc' = "finished"
             /\ result' = "block diverges from cache"
             /\ UNCHANGED block_number
        ELSE /\ io' = Append(io, Call("report_difference", "equal"))
             /\ UNCHANGED cache
             /\ IF cmd.op = "by_range" /\ block_number < range_max
                THEN /\ block_number' = block_number + 1
                     /\ rpc' = "resolve"
                     /\ UNCHANGED result
                ELSE /\ rpc' = "finished"
                     /\ result' = OkResult
                     /\ UNCHANGED block_number
    /\ cached_block' = None
    /\ provider_block' = None
    /\ UNCHANGED <<chain_head, cmd, range_max, block_hash, streamVars, other>>

\* A variant of DiffAndDelete in which by_range's loop steps over a height
\* when two or more are left.
DiffAndDeleteStepsByTwo ==
    /\ rpc = "diff"
    /\ LET diff == diff_block_pair(Unwrap(cached_block), Unwrap(provider_block)) IN
        IF diff # None
        THEN /\ cache' = DeleteBlocks(cache, block_hash)
             /\ io' = io \o <<Call("report_difference", "diverges"),
                               Call("delete_blocks", block_hash)>>
        ELSE /\ io' = Append(io, Call("report_difference", "equal"))
             /\ UNCHANGED cache
    /\ IF cmd.op = "by_range" /\ block_number < range_max
       THEN /\ block_number' = IF block_number + 1 < range_max
                                THEN block_number + 2 ELSE block_number + 1
            /\ rpc' = "resolve"
            /\ UNCHANGED result
       ELSE /\ rpc' = "finished"
            /\ result' = OkResult
            /\ UNCHANGED block_number
    /\ cached_block' = None
    /\ provider_block' = None
    /\ UNCHANGED <<chain_head, cmd, range_max, block_hash, streamVars, other>>

\* run: diff_block_pair, report_difference and delete_block; then run
\* returns Ok and by_range's loop moves to the next block number or ends.
DiffAndDelete ==
    /\ rpc = "diff"
    /\ LET diff == diff_block_pair(Unwrap(cached_block), Unwrap(provider_block)) IN
        IF diff # None
        THEN /\ cache' = DeleteBlocks(cache, block_hash)
             /\ io' = io \o <<Call("report_difference", "diverges"),
                               Call("delete_blocks", block_hash)>>
        ELSE /\ io' = Append(io, Call("report_difference", "equal"))
             /\ UNCHANGED cache
    /\ IF cmd.op = "by_range" /\ block_number < range_max
       THEN /\ block_number' = block_number + 1
            /\ rpc' = "resolve"
            /\ UNCHANGED result
       ELSE /\ rpc' = "finished"
            /\ result' = OkResult
            /\ UNCHANGED block_number
    /\ cached_block' = None      \* run's locals end with run
    /\ provider_block' = None
    /\ UNCHANGED <<chain_head, cmd, range_max, block_hash, streamVars, other>>

\* The command has returned; the tool may be invoked again.
Return ==
    /\ rpc = "finished"
    /\ cmd' = NoCommand
    /\ rpc' = "idle"
    /\ range_max' = 0
    /\ block_number' = 0
    /\ block_hash' = 0
    /\ cached_block' = None
    /\ provider_block' = None
    /\ result' = "none"
    /\ io' = <<>>
    /\ UNCHANGED <<cache, chain_head, streamVars, other>>

\* The node, running beside the tool, moves the chain head one block up
\* (an atomic update of the head pointer).
HeadAdvance ==
    /\ chain_head # None
    /\ Unwrap(chain_head) < MaxBound
    /\ chain_head' = Some(Unwrap(chain_head) + 1)
    /\ UNCHANGED <<cache, cmd, rpc, range_max, block_number, block_hash,
                   cached_block, provider_block, result, io, streamVars, other>>

RepairNext ==
    \/ \E hash \in HashStrings : ByHash(hash)
    \/ \E number \in (-1)..MaxBound : ByNumber(number)
    \/ \E range \in RangeExprs, wraps \in BOOLEAN : ByRange(range, wraps)
    \/ \E skip \in BOOLEAN, answer \in Answers : Truncate(skip, answer)
    \/ Resolve
    \/ FetchCached
    \/ \E answer \in ProviderAnswers(block_hash) : FetchProvider(answer)
    \/ DiffAndDelete
    \/ Return
    \/ HeadAdvance

RepairSpec == RepairInit /\ [][RepairNext]_vars

(***************************************************************************)
(* The repair command beside a live cache writer: the node populating the  *)
(* cache, or another administrative command deleting from it.              *)
(***************************************************************************)

\* Another writer sets the cache entry of a hash: to the canonical body, or
\* to nothing.
CacheWrite(hash, entry) ==
    /\ cache[hash] # entry
    /\ cache' = [cache EXCEPT ![hash] = entry]
    /\ UNCHANGED <<chain_head, cmd, rpc, range_max, block_number, block_hash,
                   cached_block, provider_block, result, io, streamVars, other>>

ConcurrentNext ==
    \/ RepairNext
    \/ \E hash \in StoreHashes, entry \in {None, Some("canonical")} :
          CacheWrite(hash, entry)

ConcurrentSpec == RepairInit /\ [][ConcurrentNext]_vars

(***************************************************************************)
(* Helpers for the stream properties                                       *)
(***************************************************************************)

\* Block::parent_ptr of the block a pointer identifies.
ParentOf(p) == (CHOOSE b \in BlockUniverse : b.ptr = p).parent_ptr

\* The pointer `n` parent steps above p (None once the walk passes genesis).
RECURSIVE AncestorAt(_, _)
AncestorAt(p, n) ==
    IF n = 0 THEN Some(p)
    ELSE IF ParentOf(p) = None THEN None
    ELSE AncestorAt(Unwrap(ParentOf(p)), n - 1)

\* The number of parent steps from h up to a; -1 when a is no ancestor of h.
Distance(h, a) ==
    IF \E n \in 0..h.number : AncestorAt(h, n) = Some(a)
    THEN CHOOSE n \in 0..h.number : AncestorAt(h, n) = Some(a)
    ELSE -1

InList(bl, p) == \E i \in 1..Len(bl) : bl[i].ptr = p

IsProcessBlock(e) == e.kind = "ProcessBlock"
IsRevert(e) == e.kind = "Revert"

\* The head a subscriber holds after applying the first k events.
HeadAfter(k) ==
    IF k = 0 THEN start
    ELSE IF IsProcessBlock(events[k]) THEN Some(events[k].block.ptr)
    ELSE Some(events[k].ptr)

\* The number of consecutive Revert events immediately before event k.
RevertRun(k) ==
    CHOOSE r \in 0..(k - 1) :
        /\ \A j \in (k - r)..(k - 1) : IsRevert(events[j])
        /\ (r = k - 1 \/ ~IsRevert(events[k - r - 1]))

\* The stream has been built and has not panicked in build_firehose.
Started == pc \in {"running", "done"} \/ (pc = "panicked" /\ BuildFirehose(blocks, start).ok)

\* The block blocks_iter.peek() returns, when there is one.
HasCandidate == pc \in {"running", "panicked"} /\ Started /\ pos <= Len(blocks)
Candidate == blocks[pos]

\* The events a stream in state (cur, par, p) yields from here on, closed by
\* a marker telling how it ends.
RECURSIVE FutureEvents(_, _, _, _)
FutureEvents(bl, cur, par, p) ==
    LET s == StreamStep(bl, cur, par, p) IN
    IF s.kind = "yield"
    THEN <<s.event>> \o FutureEvents(bl, s.current_ptr, s.current_parent_ptr, s.pos)
    ELSE <<[kind |-> s.kind]>>

\* What a new stream built by build_firehose with current_block = head yields.
Resumed(bl, head) ==
    LET s == BuildFirehose(bl, head) IN
    IF s.ok THEN FutureEvents(bl, s.current_ptr, s.current_parent_ptr, s.pos)
    ELSE <<[kind |-> "panic"]>>

\* Each block's parent pointer is the pointer of the block before it, and the
\* first block has no parent.
IsLinear(bl) ==
    /\ Len(bl) >= 1
    /\ bl[1].parent_ptr = None
    /\ \A i \in 2..Len(bl) : bl[i].parent_ptr = Some(bl[i - 1].ptr)

(***************************************************************************)
(* C1. A linear chain list (first block without parent, every other block  *)
(* a child of the block before it), streamed with no current block, yields *)
(* ProcessBlock of each block in list order and never a Revert or a panic; *)
(* when the stream ends there is exactly one event per block.              *)
(***************************************************************************)
C1_LinearChainOnlyProcessBlocks ==
    (Started /\ start = None /\ IsLinear(blocks)) =>
        /\ pc # "panicked"
        /\ Len(events) = pos - 1
        /\ \A k \in 1..Len(events) : events[k] = ProcessBlock(blocks[k])
        /\ (pc = "done" => Len(events) = Len(blocks))

C1_Witness ==
    /\ pc = "done" /\ start = None /\ IsLinear(blocks) /\ Len(blocks) >= 3
    /\ Len(events) = Len(blocks)

(***************************************************************************)
(* C3. Every ProcessBlock(b) in the emitted sequence has b's parent        *)
(* pointer equal to the head established by the events before it: the      *)
(* start pointer, the last ProcessBlock's block or the last Revert's       *)
(* target. So the applied history is parent-linked, and the Reverts of a   *)
(* reorg come before the ProcessBlock of the replacing block.              *)
(***************************************************************************)
C3_ProcessBlockExtendsHead ==
    \A k \in 1..Len(events) :
        IsProcessBlock(events[k]) =>
            events[k].block.parent_ptr = HeadAfter(k - 1)

C3_Witness ==
    /\ Len(events) >= 3
    /\ IsProcessBlock(events[Len(events)])
    /\ IsRevert(events[Len(events) - 1])
    /\ IsProcessBlock(events[Len(events) - 2])
\* The candidate forks off a strict ancestor of the current head: its parent
\* pointer is d >= 1 parent steps above the head.
ForkPending ==
    /\ HasCandidate
    /\ current_ptr # None
    /\ Candidate.parent_ptr # None
    /\ Distance(Unwrap(current_ptr), Unwrap(Candidate.parent_ptr)) >= 1

ForkDistance == Distance(Unwrap(current_ptr), Unwrap(Candidate.parent_ptr))

\* Every block on the path from the head down to the fork point, the fork
\* point included, is in the chain list.
ForkPathInList ==
    \A j \in 1..ForkDistance :
        InList(blocks, Unwrap(AncestorAt(Unwrap(current_ptr), j)))

\* For every emitted ProcessBlock(b): the Reverts emitted since the previous
\* head H was established are exactly the d ancestors of H up to b's parent,
\* one per height, d being the distance from H to b's parent.
RevertsAreMinimal ==
    \A k \in 1..Len(events) :
        IsProcessBlock(events[k]) =>
            LET r == RevertRun(k)
                H == HeadAfter(k - r - 1)
                A == events[k].block.parent_ptr
            IN H # None =>
                /\ A # None
                /\ Distance(Unwrap(H), Unwrap(A)) = r
                /\ \A j \in 1..r :
                      events[k - r - 1 + j] = Revert(Unwrap(AncestorAt(Unwrap(H), j)))

(***************************************************************************)
(* C2 as stated. Whenever the candidate forks off an ancestor A at         *)
(* distance d >= 1 below the head, the stream emits exactly d Reverts      *)
(* (ending with Revert(A)) and then ProcessBlock(candidate): the Reverts   *)
(* before each ProcessBlock are minimal, and the stream does not fail      *)
(* while such a fork is pending.                                           *)
(***************************************************************************)
C2_Original_ForkAlwaysResolved ==
    /\ RevertsAreMinimal
    /\ ~(pc = "panicked" /\ ForkPending)

(***************************************************************************)
(* C2 amended. The same, provided every block on the path from the head    *)
(* down to A (A included) is in the chain list; when one is missing the    *)
(* ancestor lookup panics before the Revert to it is emitted.              *)
(***************************************************************************)
C2_ForkResolvedWhenPathInList ==
    /\ RevertsAreMinimal
    /\ ~(pc = "panicked" /\ ForkPending /\ ForkPathInList)
    /\ (ForkPending /\ ForkPathInList /\ pc = "running") =>
          LET f == FutureEvents(blocks, current_ptr, current_parent_ptr, pos)
              d == ForkDistance
          IN /\ Len(f) >= d + 1
             /\ \A j \in 1..d :
                   f[j] = Revert(Unwrap(AncestorAt(Unwrap(current_ptr), j)))
             /\ f[d + 1] = ProcessBlock(Candidate)

\* After 3_A was applied, candidate 3_B (child of 2) was reached with
\* Revert(ptr_2) then ProcessBlock(3_B); and a fork at distance 2 as well.
C2_Witness ==
    /\ Len(events) >= 3
    /\ events[Len(events) - 2] = ProcessBlock(Block3A)
    /\ events[Len(events) - 1] = Revert(test_ptr(2))
    /\ events[Len(events)] = ProcessBlock(Block3B)

(***************************************************************************)
(* C4. Every step that emits Revert(p) is taken with a head whose          *)
(* immediate parent is p (p = current_parent_ptr) and a candidate whose    *)
(* parent differs from the head; it makes p the head, sets                 *)
(* current_parent_ptr to p's own parent and leaves the candidate in place. *)
(***************************************************************************)
C4_RevertTargetsParent ==
    [][(events' # events /\ IsRevert(events'[Len(events')])) =>
        LET p == events'[Len(events')].ptr IN
            /\ current_ptr # None
            /\ ParentOf(Unwrap(current_ptr)) = Some(p)
            /\ current_parent_ptr = Some(p)
            /\ Candidate.parent_ptr # current_ptr
            /\ current_ptr' = Some(p)
            /\ current_parent_ptr' = ParentOf(p)
            /\ pos' = pos
            /\ Len(events') = Len(events) + 1
      ]_vars

C4_Witness ==
    /\ Len(events) >= 2
    /\ IsRevert(events[Len(events)])
    /\ IsRevert(events[Len(events) - 1])
    /\ current_ptr = Some(events[Len(events)].ptr)

\* The head is genesis (the block without parent) or there is no head.
AtGenesisOrNoHead ==
    current_ptr = None \/ ParentOf(Unwrap(current_ptr)) = None

(***************************************************************************)
(* C5. No Revert targets a pointer before genesis: a step taken with the   *)
(* head at genesis (or with no head) and a candidate whose parent does not *)
(* match panics and emits nothing, and every Revert that is emitted is     *)
(* taken from a head above genesis and targets a block of the chain list   *)
(* one height below it.                                                    *)
(***************************************************************************)
C5_NoRevertPastGenesis ==
    [][/\ (pc = "running" /\ pos <= Len(blocks) /\ AtGenesisOrNoHead
             /\ Candidate.parent_ptr # current_ptr)
          => (pc' = "panicked" /\ events' = events)
       /\ (events' # events /\ IsRevert(events'[Len(events')]))
          => /\ ~AtGenesisOrNoHead
             /\ InList(blocks, events'[Len(events')].ptr)
             /\ events'[Len(events')].ptr.number >= 0
             /\ events'[Len(events')].ptr.number = Unwrap(current_ptr).number - 1
      ]_vars

C5_Witness ==
    /\ pc = "panicked"
    /\ current_ptr = Some(test_ptr(0))
    /\ HasCandidate
    /\ Candidate.parent_ptr # current_ptr
    /\ \A k \in 1..Len(events) : ~IsRevert(events[k])

\* The candidate is the block already applied as the current head.
NoOpCandidate ==
    /\ pc = "running"
    /\ pos <= Len(blocks)
    /\ current_ptr = Some(Candidate.ptr)

(***************************************************************************)
(* C6 as stated. When the candidate is the block already applied as the    *)
(* current head, the step emits no event.                                  *)
(***************************************************************************)
C6_Original_NoEventForNoOp ==
    [][NoOpCandidate => events' = events]_vars

(***************************************************************************)
(* C6 amended. A candidate equal to the current head is not skipped: its   *)
(* parent differs from the head, so the stream emits Revert(parent of the  *)
(* head), keeps the candidate, and the candidate then extends the new head *)
(* (it is processed again); with the head at genesis, or the parent absent *)
(* from the list, the step panics instead.                                 *)
(***************************************************************************)
C6_NoOpCandidateIsReverted ==
    [][NoOpCandidate =>
        \/ /\ pc' = "panicked"
           /\ events' = events
           /\ (current_parent_ptr = None
               \/ ~InList(blocks, Unwrap(current_parent_ptr)))
        \/ /\ current_parent_ptr # None
           /\ events' = Append(events, Revert(Unwrap(current_parent_ptr)))
           /\ pos' = pos
           /\ pc' = "running"
           /\ StreamStep(blocks, current_ptr', current_parent_ptr', pos').kind = "yield"
           /\ StreamStep(blocks, current_ptr', current_parent_ptr', pos').event
                 = ProcessBlock(Candidate)
      ]_vars

C6_Witness ==
    /\ Len(events) >= 3
    /\ IsProcessBlock(events[Len(events) - 2])
    /\ IsRevert(events[Len(events) - 1])
    /\ events[Len(events)] = events[Len(events) - 2]

(***************************************************************************)
(* C7 as stated. After any prefix of the events, a new stream built with   *)
(* current_block = the head after that prefix emits exactly what the       *)
(* uninterrupted stream emits after the prefix.                            *)
(***************************************************************************)
C7_Original_ResumeFromHead ==
    pc = "running" =>
        Resumed(blocks, current_ptr)
            = FutureEvents(blocks, current_ptr, current_parent_ptr, pos)

\* The head is the list entry the stream consumed last and no earlier entry
\* carries its pointer (or nothing has been applied to a stream without a
\* current block).
HeadIsLastConsumed ==
    \/ current_ptr = None
    \/ FindIndex(blocks, Unwrap(current_ptr)) = pos - 1

(***************************************************************************)
(* C7 amended. Resumption from the head reproduces the remaining events    *)
(* when the head is the list entry consumed last and its pointer does not  *)
(* occur earlier in the list: the case after a ProcessBlock of a block     *)
(* whose pointer occurs once. (After a Revert, or when the pointer occurs  *)
(* earlier, build_firehose restarts after the first occurrence.)           *)
(***************************************************************************)
C7_ResumeAfterLastConsumed ==
    (pc = "running" /\ HeadIsLastConsumed) =>
        Resumed(blocks, current_ptr)
            = FutureEvents(blocks, current_ptr, current_parent_ptr, pos)

C7_Witness ==
    /\ pc = "running"
    /\ HeadIsLastConsumed
    /\ Len(events) >= 2
    /\ IsProcessBlock(events[Len(events)])
    /\ Len(Resumed(blocks, current_ptr)) >= 3
    /\ IsRevert(Resumed(blocks, current_ptr)[1])

\* The blocks of the ProcessBlock events, in emission order.
ProcessedBlocks ==
    LET pb == SelectSeq(events, IsProcessBlock)
    IN [k \in 1..Len(pb) |-> pb[k].block]

\* The list position of the start block (0 with no current block).
StartIndex == IF start = None THEN 0 ELSE FindIndex(blocks, Unwrap(start))

\* The genesis,1,2,3 scenario: started at genesis the stream emits
\* ProcessBlock(1), ProcessBlock(2), ProcessBlock(3), then ends.
StartedAtGenesisScenario ==
    (blocks = <<Genesis, Block1, Block2, Block3A>> /\ start = Some(test_ptr(0))) =>
        /\ pc # "panicked"
        /\ \A k \in 1..Len(events) : events[k] = ProcessBlock(blocks[k + 1])
        /\ (Len(events) = 3 =>
              StreamStep(blocks, current_ptr, current_parent_ptr, pos).kind = "end")
        /\ (pc = "done" =>
              events = <<ProcessBlock(Block1), ProcessBlock(Block2),
                         ProcessBlock(Block3A)>>)

(***************************************************************************)
(* C8 as stated. No ProcessBlock is ever emitted for the start block or    *)
(* for a block listed before it: no processed block has the pointer of a   *)
(* list entry at or before the start position. Fails when that pointer     *)
(* occurs again after the start position.                                  *)
(***************************************************************************)
C8_Original_StartBlockNeverProcessed ==
    Started =>
        /\ \A k \in 1..Len(events) :
              IsProcessBlock(events[k]) =>
                  \A i \in 1..StartIndex : blocks[i].ptr # events[k].block.ptr
        /\ StartedAtGenesisScenario

(***************************************************************************)
(* C8. The blocks processed are exactly the list entries after the start   *)
(* position that the iterator has passed, in list order: no ProcessBlock   *)
(* is emitted for the entry at the start position or an entry before it.   *)
(* On genesis,1,2,3 started at genesis the stream emits ProcessBlock(1),   *)
(* ProcessBlock(2), ProcessBlock(3), then ends without a further event.    *)
(***************************************************************************)
C8_StartBlockNotProcessed ==
    Started =>
        /\ pos >= StartIndex + 1
        /\ ProcessedBlocks = SubSeq(blocks, StartIndex + 1, pos - 1)
        /\ StartedAtGenesisScenario

\* The stream over genesis,1,2,3 started at genesis has ended after
\* processing blocks 1, 2 and 3.
C8_Witness ==
    /\ pc = "done"
    /\ blocks = <<Genesis, Block1, Block2, Block3A>>
    /\ start = Some(test_ptr(0))
    /\ events = <<ProcessBlock(Block1), ProcessBlock(Block2), ProcessBlock(Block3A)>>

(***************************************************************************)
(* Helpers for the repair properties                                       *)
(***************************************************************************)

IsRepair(c) == c.op \in {"by_hash", "by_number", "by_range"}

\* The request names genesis: by_number(0), by_hash of the genesis hash, or
\* a range whose lower bound is 0.
TargetsGenesis(c) ==
    \/ c.op = "by_number" /\ c.arg = 0
    \/ c.op = "by_hash" /\ parse_block_hash(c.arg).kind = "ok"
          /\ parse_block_hash(c.arg).hash = GenesisHash
    \/ c.op = "by_range" /\ from_str(c.arg).ok
          /\ from_str(c.arg).range.lower_bound = Some(0)

\* The heights by_range has resolved so far.
ResolvedHeights ==
    {io[i].arg : i \in {j \in 1..Len(io) : io[j].call = "block_hashes_by_block_number"}}

\* The hashes the command has fetched (from cache or provider) or deleted.
TouchedHashes ==
    {io[i].arg : i \in {j \in 1..Len(io) :
                    io[j].call \in {"blocks", "block_by_hash", "delete_blocks"}}}

\* by_range was given `A..B` or `..B`, accepted by from_str and min_max.
ExclusiveRange(c) ==
    /\ c.op = "by_range"
    /\ from_str(c.arg).ok
    /\ ~from_str(c.arg).range.inclusive
    /\ from_str(c.arg).range.upper_bound # None
    /\ min_max(from_str(c.arg).range).kind = "ok"

(***************************************************************************)
(* C9. No step of by_hash, by_number or by_range removes the genesis block *)
(* (height 0) from the cache.                                              *)
(***************************************************************************)
C9_GenesisNeverDeleted ==
    [][IsRepair(cmd') =>
        (cache[GenesisHash] # None => cache'[GenesisHash] # None)]_vars

\* C9, second half: a request that names genesis (by_number(0), by_hash of
\* the genesis hash, a range with lower bound 0) ends with an error.
C9_GenesisRequestRejected ==
    [][(IsRepair(cmd') /\ rpc' = "finished" /\ TargetsGenesis(cmd'))
          => IsErr(result')]_vars

(***************************************************************************)
(* C10. With an exclusive range `A..B` (or `..B`, A = 1) by_range resolves *)
(* only heights in A..B-1, never fetches or deletes a block at height B or *)
(* above, and a run that returns Ok has resolved exactly A..B-1.           *)
(***************************************************************************)
C10_ExclusiveRangeStopsBeforeB ==
    ExclusiveRange(cmd) =>
        LET A == min_max(from_str(cmd.arg).range).min
            B == Unwrap(from_str(cmd.arg).range.upper_bound)
        IN /\ \A n \in ResolvedHeights : A <= n /\ n <= B - 1
           /\ \A h \in TouchedHashes : NumberOf(h) <= B - 1
           /\ (rpc = "finished" /\ result = OkResult) =>
                 ResolvedHeights = {n \in A..(B - 1) : TRUE}

\* by_range was given `A..=B` or `..=B`, accepted by from_str and min_max.
InclusiveRange(c) ==
    /\ c.op = "by_range"
    /\ from_str(c.arg).ok
    /\ from_str(c.arg).range.inclusive
    /\ from_str(c.arg).range.upper_bound # None
    /\ min_max(from_str(c.arg).range).kind = "ok"

(***************************************************************************)
(* C11. With an inclusive range `A..=B` (or `..=B`, A = 1) by_range        *)
(* resolves only heights in A..B, never fetches or deletes a block above   *)
(* height B, and a run that returns Ok has resolved exactly A..B.          *)
(***************************************************************************)
C11_InclusiveRangeStopsAtB ==
    InclusiveRange(cmd) =>
        LET A == min_max(from_str(cmd.arg).range).min
            B == Unwrap(from_str(cmd.arg).range.upper_bound)
        IN A <= B =>
            /\ \A n \in ResolvedHeights : A <= n /\ n <= B
            /\ \A h \in TouchedHashes : NumberOf(h) <= B
            /\ (rpc = "finished" /\ result = OkResult) =>
                  ResolvedHeights = {n \in A..B : TRUE}

\* by_range was given a range that from_str accepts.
ParsedRange(c) == c.op = "by_range" /\ from_str(c.arg).ok

\* by_range was given `A..`, `..` or `..=` (from_str and min_max accept it).
OpenUpper(c) ==
    /\ ParsedRange(c)
    /\ from_str(c.arg).range.upper_bound = None
    /\ min_max(from_str(c.arg).range).kind = "ok"

\* The chain_head_block calls the command has made.
HeadReads == SelectSeq(io, LAMBDA x : x.call = "chain_head_block")

(***************************************************************************)
(* C12. An omitted lower bound is 1: no height below 1 is resolved. An     *)
(* omitted upper bound is inclusive and is the chain head, read once, as   *)
(* the command's first call: only heights from min to that head are        *)
(* resolved, whatever the head becomes later, and a run that returns Ok    *)
(* has resolved exactly min..head. When the head read is None the command  *)
(* fails having made no other call.                                        *)
(***************************************************************************)
C12_OpenBounds ==
    /\ (ParsedRange(cmd) /\ from_str(cmd.arg).range.lower_bound = None) =>
          /\ min_max(from_str(cmd.arg).range).min = 1
          /\ \A n \in ResolvedHeights : n >= 1
    /\ OpenUpper(cmd) =>
          /\ from_str(cmd.arg).range.inclusive
          /\ Len(HeadReads) = 1
          /\ io[1] = HeadReads[1]
          /\ LET head == io[1].arg
                 min == min_max(from_str(cmd.arg).range).min
             IN IF head = None
                THEN /\ rpc = "finished"
                     /\ IsErr(result)
                     /\ Len(io) = 1
                ELSE /\ \A n \in ResolvedHeights : min <= n /\ n <= Unwrap(head)
                     /\ \A h \in TouchedHashes : NumberOf(h) <= Unwrap(head)
                     /\ (rpc = "finished" /\ result = OkResult) =>
                           ResolvedHeights = {n \in min..Unwrap(head) : TRUE}

\* `..` has returned Ok after examining height 1 alone, the head read at
\* invocation; the head has moved to 2 since, where a block is cached.
C12_Witness ==
    /\ cmd.op = "by_range"
    /\ cmd.arg = <<Excl>>
    /\ rpc = "finished"
    /\ result = OkResult
    /\ io[1] = Call("chain_head_block", Some(1))
    /\ ResolvedHeights = {1}
    /\ chain_head = Some(2)
    /\ BlockHashesByBlockNumber(cache, 2) # {}

\* The range expression, read as text: its separators and the text on
\* either side of a single separator.
Separators(s) == {i \in 1..Len(s) : s[i].t = "sep"}
LowerText(s) == SubSeq(s, 1, (CHOOSE i \in Separators(s) : TRUE) - 1)
UpperText(s) == SubSeq(s, (CHOOSE i \in Separators(s) : TRUE) + 1, Len(s))
IsInteger(text) == Len(text) = 1 /\ text[1].t = "int"

\* The expressions by_range must reject: no separator, several separators,
\* a bound that is not an integer, an explicit start greater than the end,
\* a lower bound of 0, a negative lower bound.
Rejectable(s) ==
    \/ Separators(s) = {}
    \/ Cardinality(Separators(s)) > 1
    \/ /\ Cardinality(Separators(s)) = 1
       /\ \/ LowerText(s) # <<>> /\ ~IsInteger(LowerText(s))
          \/ UpperText(s) # <<>> /\ ~IsInteger(UpperText(s))
          \/ /\ IsInteger(LowerText(s)) /\ IsInteger(UpperText(s))
             /\ LowerText(s)[1].v > UpperText(s)[1].v
          \/ IsInteger(LowerText(s)) /\ LowerText(s)[1].v = 0
          \/ IsInteger(LowerText(s)) /\ LowerText(s)[1].v < 0

(***************************************************************************)
(* C13. by_range given an expression with no separator, several            *)
(* separators, a non-integer bound, an explicit start > end, a lower bound *)
(* of 0 or a negative lower bound returns an error having made no          *)
(* chain-store or provider call, and the cache is unchanged.               *)
(***************************************************************************)
C13_MalformedRangeRejectedBeforeIO ==
    [][(cmd'.op = "by_range" /\ Rejectable(cmd'.arg)) =>
          /\ rpc' = "finished"
          /\ IsErr(result')
          /\ io' = <<>>
          /\ cache' = cache]_vars

\* by_range("3..1") has returned "Invalid range" over a non-empty cache.
C13_Witness ==
    /\ cmd.op = "by_range"
    /\ cmd.arg = <<IntTok(3), Excl, IntTok(1)>>
    /\ rpc = "finished"
    /\ result = "Invalid range"
    /\ io = <<>>
    /\ cache[1] # None

\* `..B` or `..=B` with B below 1, the value an omitted lower bound takes.
DefaultedLowerAboveUpper(s) ==
    /\ Cardinality(Separators(s)) = 1
    /\ LowerText(s) = <<>>
    /\ IsInteger(UpperText(s))
    /\ UpperText(s)[1].v < 1

(***************************************************************************)
(* C14. by_range given `..B` or `..=B` with B < 1 (the defaulted lower     *)
(* bound 1 exceeds the upper bound) returns an error having made no        *)
(* chain-store or provider call.                                           *)
(***************************************************************************)
C14_DefaultedLowerAboveUpperRejected ==
    (cmd.op = "by_range" /\ DefaultedLowerAboveUpper(cmd.arg)) =>
        /\ rpc = "finished"
        /\ IsErr(result)
        /\ io = <<>>

\* C14, the I/O half alone: such a command makes no chain-store call.
C14_NoIOForDefaultedLowerAboveUpper ==
    (cmd.op = "by_range" /\ DefaultedLowerAboveUpper(cmd.arg)) => io = <<>>

\* The step of run that compares the two blocks, reports and deletes.
RunCompares == rpc = "diff" /\ rpc' # "diff"

\* The cached block and the provider's block do not diverge: equal values,
\* or a structural diff that is absent or Null.
NoDivergence ==
    \/ Unwrap(cached_block) = Unwrap(provider_block)
    \/ JsonDiff(Unwrap(cached_block), Unwrap(provider_block)) \in {None, Some("Null")}

(***************************************************************************)
(* C15. When run compares the cached block with the provider's block of    *)
(* the same hash: without divergence it reports equality and the cache is  *)
(* unchanged; with divergence it reports the difference and deletes the    *)
(* targeted hash, every other cache entry staying as it was. The chain     *)
(* head is unchanged either way, and no other step of a repair command     *)
(* changes the cache.                                                      *)
(***************************************************************************)
C15_RepairDeletesExactlyDivergentTarget ==
    [][/\ RunCompares =>
            /\ IF NoDivergence
               THEN /\ io' = Append(io, Call("report_difference", "equal"))
                    /\ cache' = cache
               ELSE /\ io' = io \o <<Call("report_difference", "diverges"),
                                      Call("delete_blocks", block_hash)>>
                    /\ cache'[block_hash] = None
                    /\ \A h \in StoreHashes \ {block_hash} : cache'[h] = cache[h]
            /\ chain_head' = chain_head
       /\ (IsRepair(cmd) /\ cache' # cache) => RunCompares
       /\ (IsRepair(cmd) /\ chain_head' # chain_head) => io' = io
      ]_vars

\* A range repair has found one block equal to the provider's and another
\* divergent; the divergent one is gone and genesis is still cached.
C15_Witness ==
    /\ cmd.op = "by_range"
    /\ \E i \in 1..Len(io) :
          io[i].call = "report_difference" /\ io[i].arg = "equal"
    /\ \E i \in 1..Len(io) :
          /\ io[i].call = "delete_blocks"
          /\ io[i].arg = block_hash
          /\ cache[block_hash] = None
    /\ cache[GenesisHash] # None

\* The step that resolves block_number to a hash.
Resolves == rpc = "resolve" /\ rpc' # "resolve"

\* The hashes the store holds at a height.
HashesAt(number) == {h \in StoreHashes : cache[h] # None /\ NumberOf(h) = number}

\* The command has ended on get_single_item's error.
ExpectedSingle ==
    /\ rpc = "finished"
    /\ result \in {"Expected a single item but found none",
                    "Expected a single item but found multiple occurrences"}

(***************************************************************************)
(* C16. Resolving a height at which the store holds no hash, or more than  *)
(* one, ends by_number and by_range with an "expected a single" error: no  *)
(* hash is picked, the lookup is the command's last call (no cache fetch,  *)
(* no provider request, no delete) and the cache is unchanged. With one    *)
(* hash at the height, that hash is the one repaired.                      *)
(***************************************************************************)
C16_ResolutionNeedsExactlyOneHash ==
    [][Resolves =>
          /\ io' = Append(io, Call("block_hashes_by_block_number", block_number))
          /\ cache' = cache
          /\ IF Cardinality(HashesAt(block_number)) = 1
             THEN /\ rpc' = "fetch_cached"
                  /\ block_hash' \in HashesAt(block_number)
             ELSE /\ rpc' = "finished"
                  /\ block_hash' = block_hash
                  /\ result' = IF HashesAt(block_number) = {}
                               THEN "Expected a single item but found none"
                               ELSE "Expected a single item but found multiple occurrences"
      ]_vars

\* C16 as a state property: a command ended by that error made the lookup
\* its last call.
C16_NothingAfterFailedResolution ==
    ExpectedSingle => io[Len(io)].call = "block_hashes_by_block_number"

\* by_number(2) has failed over a store holding two hashes at height 2.
C16_Witness ==
    /\ cmd.op = "by_number"
    /\ cmd.arg = 2
    /\ rpc = "finished"
    /\ result = "Expected a single item but found multiple occurrences"
    /\ Cardinality(HashesAt(2)) = 2
    /\ io = <<Call("block_hashes_by_block_number", 2)>>

\* The step that asks the provider for the block.
FetchesProvider == rpc = "fetch_provider" /\ rpc' # "fetch_provider"

\* The provider's answer to the request just made.
LastAnswer == io'[Len(io')].arg

(***************************************************************************)
(* C17. When the provider answers with no block, or with a block whose own *)
(* hash is not the hash requested, the command ends with an error: no      *)
(* provider block is kept for comparison, nothing is reported or deleted,  *)
(* and the cache is unchanged.                                             *)
(***************************************************************************)
C17_ProviderMismatchIsAnError ==
    [][FetchesProvider =>
          /\ io'[Len(io') - 1] = Call("block_by_hash", block_hash)
          /\ Len(io') = Len(io) + 2
          /\ (\/ LastAnswer.kind = "none"
              \/ LastAnswer.kind = "block" /\ LastAnswer.hash # block_hash) =>
                /\ rpc' = "finished"
                /\ IsErr(result')
                /\ provider_block' = None
                /\ cache' = cache
                /\ cache'[block_hash] # None
      ]_vars

\* The provider answered with another block for a stale cached block: the
\* command failed and the stale block is still cached.
C17_Witness ==
    /\ rpc = "finished"
    /\ result = "Provider responded with a different block hash"
    /\ cache[block_hash] = Some("stale")
    /\ io[Len(io)].call = "block_by_hash answer"
    /\ io[Len(io)].arg.hash # block_hash

\* The per-height validation failures: no hash or several hashes at the
\* height, or the block missing from the cache.
ValidationErrors ==
    {"Expected a single item but found none",
     "Expected a single item but found multiple occurrences",
     "Could not find a block in cache"}

(***************************************************************************)
(* C18. A validation failure at a height below max does not end by_range:  *)
(* the command is never finished on such a failure with heights of         *)
(* min..=max left unexamined.                                              *)
(***************************************************************************)
C18_RangeContinuesAfterValidationFailure ==
    ~(/\ cmd.op = "by_range"
      /\ rpc = "finished"
      /\ result \in ValidationErrors
      /\ block_number < range_max
      /\ \E n \in (block_number + 1)..range_max : n \notin ResolvedHeights)

\* The comparison step of a range repair finds a divergence.
DivergenceInRange == RunCompares /\ cmd.op = "by_range" /\ ~NoDivergence

(***************************************************************************)
(* C19. When the block at height h of a range repair diverges from the     *)
(* provider's, by_range deletes it and, if h < max, moves on to height     *)
(* h + 1 without an error; at h = max the command returns Ok. The next     *)
(* step of the command then resolves height h + 1.                         *)
(***************************************************************************)
C19_DivergenceNotFatalInRange ==
    [][/\ DivergenceInRange =>
            /\ cache'[block_hash] = None
            /\ IF block_number < range_max
               THEN /\ rpc' = "resolve"
                    /\ block_number' = block_number + 1
                    /\ ~IsErr(result')
               ELSE /\ rpc' = "finished"
                    /\ result' = OkResult
       /\ (Resolves /\ cmd.op = "by_range") =>
            io'[Len(io')] = Call("block_hashes_by_block_number", block_number)
      ]_vars

\* A range repair has returned Ok after deleting a divergent block at one
\* height and resolving the next height afterwards.
C19_Witness ==
    /\ cmd.op = "by_range"
    /\ rpc = "finished"
    /\ result = OkResult
    /\ \E i, j \in 1..Len(io) :
          /\ i < j
          /\ io[i].call = "delete_blocks"
          /\ io[j].call = "block_hashes_by_block_number"
          /\ io[j].arg = NumberOf(io[i].arg) + 1

\* The operator's answer is y or yes, in any case, with or without
\* surrounding white space.
Affirmative(a) == a.word \in {"y", "yes"}

\* The cache holds no block.
CacheEmpty == \A h \in StoreHashes : cache[h] = None

(***************************************************************************)
(* C20. truncate(skip_confirmation = false) prompts, and truncates the     *)
(* block cache only if the answer, trimmed and lower-cased, is y or yes;   *)
(* with any other answer the cache is unchanged; truncate(true) truncates  *)
(* without prompting. The command returns Ok in every case, and the chain  *)
(* head is not touched.                                                    *)
(***************************************************************************)
C20_TruncateIsConfirmationGated ==
    [][(cmd.op = "none" /\ cmd'.op = "truncate") =>
          LET skip == cmd'.arg[1]
              answer == cmd'.arg[2]
          IN /\ rpc' = "finished"
             /\ result' = OkResult
             /\ chain_head' = chain_head
             /\ IF skip
                THEN /\ io' = <<Call("truncate_block_cache", 0)>>
                     /\ CacheEmpty'
                ELSE IF Affirmative(answer)
                THEN /\ io' = <<Call("prompt_for_confirmation", answer),
                                 Call("truncate_block_cache", 0)>>
                     /\ CacheEmpty'
                ELSE /\ io' = <<Call("prompt_for_confirmation", answer)>>
                     /\ cache' = cache
      ]_vars

\* The operator answered " YES " to the prompt: the cache is empty and the
\* chain head still set.
C20_Witness ==
    /\ cmd.op = "truncate"
    /\ cmd.arg = <<FALSE, Answer("yes", TRUE, TRUE)>>
    /\ rpc = "finished"
    /\ result = OkResult
    /\ Len(io) = 2
    /\ CacheEmpty
    /\ chain_head # None

\* The step of run deletes a hash that another writer has removed since
\* run read it.
DeletesAbsentHash == RunCompares /\ ~NoDivergence /\ cache[block_hash] = None

\* truncate reaches truncate_block_cache over an empty cache.
TruncatesEmptyCache ==
    /\ cmd.op = "none"
    /\ cmd'.op = "truncate"
    /\ io'[Len(io')].call = "truncate_block_cache"
    /\ CacheEmpty

DeletesEntry ==
    RunCompares /\ cache[block_hash] # None /\ cache'[block_hash] = None

(***************************************************************************)
(* C25. Beside a live cache writer, run deletes a cache entry only if the  *)
(* body stored when it deletes still diverges from the provider's block:   *)
(* an entry replaced by the canonical body since run read it is kept.      *)
(***************************************************************************)
C25_DeletesOnlyStillDivergentEntry ==
    [][DeletesEntry =>
          diff_block_pair(Unwrap(cache[block_hash]), Unwrap(provider_block)) # None
      ]_vars

\* A loop iteration of stream_events runs: the stream is polled with a
\* candidate left in the iterator.
Iterates == pc = "running" /\ pos <= Len(blocks)

\* The candidate descends from the current head: the head lies one or more
\* parent steps above it.
CandidateDescendsFromHead ==
    /\ current_ptr # None
    /\ Distance(Candidate.ptr, Unwrap(current_ptr)) >= 1

(***************************************************************************)
(* C23. The documentation of StaticStreamBuilder: a candidate that is a    *)
(* descendant of the current head is processed by the iteration, with no   *)
(* Revert and no panic; a candidate that is not a descendant of the        *)
(* current head is not processed by it.                                    *)
(***************************************************************************)
C23_DescendantProcessedWithoutRevert ==
    [][(Iterates /\ current_ptr # None) =>
          IF CandidateDescendsFromHead
          THEN /\ events' = Append(events, ProcessBlock(Candidate))
               /\ pc' = "running"
          ELSE events' # Append(events, ProcessBlock(Candidate))
      ]_vars

C26_ParentPtrIsParentOfHead ==
    Started =>
        /\ (current_ptr = None => current_parent_ptr = None)
        /\ (current_ptr # None =>
              current_parent_ptr = ParentOf(Unwrap(current_ptr)))
        /\ (current_parent_ptr = None <=>
              (current_ptr = None \/ current_ptr = Some(Genesis.ptr)))

C26_Witness ==
    /\ pc = "running"
    /\ Len(events) >= 2
    /\ IsRevert(events[Len(events)])
    /\ current_parent_ptr # None
    /\ current_parent_ptr = ParentOf(Unwrap(current_ptr))

\* A chain list that starts at genesis and in which the parent of every
\* later block appears earlier in the list.
ParentsListedEarlier(bl) ==
    /\ Len(bl) >= 1
    /\ bl[1] = Genesis
    /\ \A i \in 2..Len(bl) :
          \E j \in 1..(i - 1) : bl[i].parent_ptr = Some(bl[j].ptr)

(***************************************************************************)
(* C27. For a chain list that starts at genesis and lists every block's    *)
(* parent before the block, the stream never panics, and when it has ended *)
(* it has emitted ProcessBlock once for each entry after the start         *)
(* position, in list order, and its head is the last block of the list.    *)
(***************************************************************************)
C27_TerminatesHavingProcessedAll ==
    (Started /\ ParentsListedEarlier(blocks)) =>
        /\ pc # "panicked"
        /\ Len(events) <= 2 * Len(blocks) * Len(blocks)
        /\ (pc = "done" =>
              /\ ProcessedBlocks = SubSeq(blocks, StartIndex + 1, Len(blocks))
              /\ current_ptr = Some(blocks[Len(blocks)].ptr))

\* The step of run that reads the cached block.
ReadsCache == rpc = "fetch_cached" /\ rpc' # "fetch_cached"

\* The command has ended on fetch_single_cached_block's error.
CacheMiss == rpc = "finished" /\ result = "Could not find a block in cache"

(***************************************************************************)
(* C28. run reads the cached block before it contacts the provider: every  *)
(* provider request directly follows the cache read of the same hash.      *)
(* When the hash is not in the cache the read is the command's last call:  *)
(* it ends with "Could not find a block in cache", no provider request is  *)
(* made and the cache is unchanged.                                        *)
(***************************************************************************)
C28_CacheReadFirstAndMissEndsRun ==
    [][/\ ReadsCache =>
            /\ io' = Append(io, Call("blocks", block_hash))
            /\ cache' = cache
            /\ IF Blocks(cache, block_hash) = None
               THEN /\ rpc' = "finished"
                    /\ result' = "Could not find a block in cache"
               ELSE /\ rpc' = "fetch_provider"
                    /\ cached_block' = Blocks(cache, block_hash)
                    /\ ~IsErr(result')
       /\ \A i \in 1..Len(io') :
            io'[i].call = "block_by_hash" =>
                /\ i > 1
                /\ io'[i - 1].call = "blocks"
                /\ io'[i - 1].arg = io'[i].arg
       /\ (rpc' = "finished" /\ result' = "Could not find a block in cache") =>
            /\ io'[Len(io')].call = "blocks"
            /\ Blocks(cache', io'[Len(io')].arg) = None
      ]_vars

C28_Witness ==
    /\ CacheMiss
    /\ cmd.op = "by_hash"
    /\ Len(io) = 1
    /\ io[1].call = "blocks"
    /\ io[1].arg = block_hash
    /\ \E h \in StoreHashes : cache[h] # None

\* The block_hashes_by_block_number calls the command has made, in order.
HeightCalls == SelectSeq(io, LAMBDA x : x.call = "block_hashes_by_block_number")

\* The height by_range was examining when it made its i-th call.
HeightOfCall(i) ==
    LET before == SelectSeq(SubSeq(io, 1, i),
                            LAMBDA x : x.call = "block_hashes_by_block_number")
    IN before[Len(before)].arg

\* by_range has entered its loop: the expression passed from_str and min_max.
RangeLoop ==
    /\ ParsedRange(cmd)
    /\ min_max(from_str(cmd.arg).range).kind = "ok"

(***************************************************************************)
(* C29. by_range examines the heights min, min + 1, ... one after the      *)
(* other; every call about a block (cache read, provider request, delete)  *)
(* is about the height resolved last, so the delete at h is made before    *)
(* h + 1 is resolved. A deleted hash stays deleted, also when the command  *)
(* has returned an error at a later height, and nothing above the height   *)
(* at which the command stands (or failed) has been resolved or touched.   *)
(***************************************************************************)
C29_RangeRepairSequentialNoRollback ==
    RangeLoop =>
        /\ \A k \in 1..Len(HeightCalls) :
              HeightCalls[k].arg = min_max(from_str(cmd.arg).range).min + k - 1
        /\ \A k \in 1..Len(HeightCalls) : HeightCalls[k].arg <= block_number
        /\ \A i \in 1..Len(io) :
              io[i].call \in {"blocks", "block_by_hash", "delete_blocks"} =>
                  /\ NumberOf(io[i].arg) = HeightOfCall(i)
                  /\ NumberOf(io[i].arg) <= block_number
        /\ \A i \in 1..Len(io) :
              io[i].call = "delete_blocks" =>
                  /\ cache[io[i].arg] = None
                  /\ (rpc = "finished" /\ IsErr(result)) =>
                        NumberOf(io[i].arg) < block_number

C29_Witness ==
    /\ RangeLoop
    /\ rpc = "finished"
    /\ IsErr(result)
    /\ Len(HeightCalls) >= 2
    /\ \E i \in 1..Len(io) :
          /\ io[i].call = "delete_blocks"
          /\ NumberOf(io[i].arg) < block_number
          /\ cache[io[i].arg] = None

\* by_range was given an upper bound and min_max did not reject the range.
BoundedAbove(c) ==
    /\ ParsedRange(c)
    /\ from_str(c.arg).range.upper_bound # None
    /\ min_max(from_str(c.arg).range).kind # "err"

(***************************************************************************)
(* C30. Range::min_max never overflows: for a range with an upper bound B  *)
(* of either inclusivity the sum is formed without panic and without       *)
(* wrap-around, so the max by_range loops to is an i32 not below B.        *)
(***************************************************************************)
C30_MinMaxNeverOverflows ==
    BoundedAbove(cmd) =>
        /\ min_max(from_str(cmd.arg).range).kind # "overflow"
        /\ rpc # "panicked"
        /\ range_max >= Unwrap(from_str(cmd.arg).range.upper_bound)
        /\ range_max <= I32Max

\* A stream in state (st, cur, par, p, ev, c), built for current block st,
\* has emitted and will emit exactly what a stream built for st and polled
\* alone emits.
AsAlone(st, cur, par, p, ev, c) ==
    LET alone == Resumed(blocks, st) IN
    CASE c = "built" -> ev = <<>>
      [] c = "running" -> ev \o FutureEvents(blocks, cur, par, p) = alone
      [] c = "done" -> Append(ev, [kind |-> "end"]) = alone
      [] OTHER -> Append(ev, [kind |-> "panic"]) = alone

\* The state of the first stream, and of the second.
FirstStream == <<start, current_ptr, current_parent_ptr, pos, events, pc>>
SecondStream ==
    <<other.start, other.current_ptr, other.current_parent_ptr, other.pos,
      other.events, other.pc>>

(***************************************************************************)
(* C22. Two streams built by one builder, with the same or different       *)
(* current blocks and polled in any interleaving: a step of one leaves the *)
(* state of the other as it is (current_ptr, current_parent_ptr, position, *)
(* events), and each stream's events, past and to come, are the events the *)
(* stream emits when it is built for its current block and polled alone.   *)
(***************************************************************************)
C22_StreamsIndependent ==
    [][/\ SecondStream' # SecondStream => FirstStream' = FirstStream
       /\ FirstStream' # FirstStream => SecondStream' = SecondStream
       /\ blocks' = blocks
       /\ AsAlone(start', current_ptr', current_parent_ptr', pos', events', pc')
       /\ AsAlone(other'.start, other'.current_ptr, other'.current_parent_ptr,
                  other'.pos, other'.events, other'.pc)
      ]_vars

C22_Witness ==
    /\ pc = "running" /\ other.pc = "done"
    /\ start # other.start
    /\ Len(events) >= 1 /\ Len(other.events) >= 2
    /\ events # SubSeq(other.events, 1, Len(events))
    /\ \E k \in 1..Len(other.events) : IsRevert(other.events[k])
    /\ pos < other.pos
====
